---- MODULE Spec2Model ----
(***************************************************************************)
(* A model of the procedural generation pipeline of the chianti hill       *)
(* scene: the Voronoi-like partition (src/src/utils/voronoi/index.ts) and  *)
(* the batched, cancellable placement run of HillSceneContent              *)
(* (src/src/components/HillScene.tsx).                                     *)
(*                                                                         *)
(* Numbers.  Seed centers and query points are real numbers in the code.   *)
(* Here a coordinate is an integer number of HALF units: the value c       *)
(* stands for the real number c/2, so a center can sit at width - 0.5.     *)
(* Distances are compared through their squares, and the irrational        *)
(* minDistance and gridSize are kept as exact rationals of their squares,  *)
(* so every comparison and every floor is the one exact real arithmetic    *)
(* gives (floating-point rounding is not modelled).                        *)
(***************************************************************************)
EXTENDS Integers, Sequences, FiniteSets, TLC

\* What reading a typed array outside its bounds gives (samples are >= 0).
UNDEFINED == 0 - 1

Min(a, b) == IF a < b THEN a ELSE b
Max(a, b) == IF a > b THEN a ELSE b

(***************************************************************************)
(* Bounds of the model (not program constants).                            *)
(***************************************************************************)
\* The largest numCells generateVoronoiCells is called with.
MaxCells == 2
\* The sides of the square grids a scene is created for: one of more than
\* 2 * batchSize cells, one small.
LargeGrid == 46
SmallGrid == 6
\* How many times the scene-creation effect runs (mount plus dependency changes).
MaxEffects == 2
\* The side of the square heightmaps generateHeightmap is called for.
MapSide == 2
\* The largest numHills and the largest seed it is called with.
MaxHills == 2
MaxSeed == 1
\* How many generateHeightmap calls are made, one after the other.
MaxCalls == 2
\* The largest number of octaves generateFBM is called with.
MaxOctaves == 4
\* The largest coordinate the placement methods are called with on their own.
MaxCoord == 1
\* The largest capacity a PlantInstancer is made with on its own.
MaxInstances == 3

(***************************************************************************)
(* Program constants.                                                      *)
(***************************************************************************)
\* voronoi/index.ts:45  while (attempts < 100 && ...)
MaxAttempts == 100
\* HillScene.tsx:87  const batchSize = 1000
batchSize == 1000

\* scene.ts:8  DEFAULT_PLANT_SPACING = 2
plantSpacing == 2
\* scene.ts:11  DEFAULT_HEIGHT_SCALE = 25
heightScale == 25
\* scene.ts:6  DEFAULT_PLANT_SIZE = 0.5, in twentieths of a unit
plantSize == 10

PlantType == [BUSH |-> "bush", BALE |-> "bale", CYPRESS |-> "cypress"]

(***************************************************************************)
(* The heightmap prop: a Float32Array of width*height samples.  Its        *)
(* content is an input here (a cone around the grid centre, in tenths, so  *)
(* 10 stands for the normalized height 1.0); reading outside the array     *)
(* gives undefined, as a typed array does.                                 *)
(***************************************************************************)
Abs(a) == IF a < 0 THEN 0 - a ELSE a

HeightValue(hm, x, y) ==
    Max(0, 10 - ((Abs(2 * x - hm.width) + Abs(2 * y - hm.height) + hm.seed) \div 8))

HeightmapAt(hm, idx) ==
    IF idx >= 0 /\ idx < hm.width * hm.height
    THEN HeightValue(hm, idx % hm.width, idx \div hm.width)
    ELSE UNDEFINED

(***************************************************************************)
(* Geometry of the partition.                                              *)
(***************************************************************************)
\* THREE.Vector2.distanceTo, squared, in half units (4 * the real square).
Dist2(p, q) == (p.x - q.x) * (p.x - q.x) + (p.y - q.y) * (p.y - q.y)

\* center.distanceTo(existing) < minDistance, with
\* minDistance = (Math.min(width, height) / Math.sqrt(numCells)) * 0.8:
\* d < minDistance  <=>  100 * numCells * d^2 < 64 * min^2, and Dist2 = 4 d^2.
TooClose(p, q, w, h, n) ==
    100 * n * Dist2(p, q) < 256 * Min(w, h) * Min(w, h)

\* centers.some(existing => center.distanceTo(existing) < minDistance)
Conflicts(p, cs, w, h, n) ==
    \E k \in 1..Len(cs) : TooClose(p, cs[k], w, h, n)

\* gridSize = Math.max(minDistance * 2, 50), as the rational num/den of its
\* square in half units: (2 * minDistance)^2 * 4 = 1024 min^2 / (100 n) and
\* 50^2 * 4 = 10000.  den = 0 stands for Infinity (numCells = 0).
GridSizeOf(w, h, n) ==
    LET m2 == Min(w, h) * Min(w, h)
    IN IF 1024 * m2 >= 1000000 * n
       THEN [num |-> 1024 * m2, den |-> 100 * n]
       ELSE [num |-> 10000, den |-> 1]

\* Math.floor(a / gridSize) for a >= 0 in half units; gridSize >= 50, so the
\* quotient is at most a / 100.
FloorG(a, g) ==
    CHOOSE k \in 0..(a \div 100) :
        /\ k * k * g.num <= a * a * g.den
        /\ (k + 1) * (k + 1) * g.num > a * a * g.den

\* Math.round of a coordinate in half units: floor(c/2 + 1/2).
Round(c) == (c + 1) \div 2

(***************************************************************************)
(* VoronoiCell and the null result of a lookup.                            *)
(***************************************************************************)
VoronoiCell(id, c, t, m) ==
    [id |-> id, center |-> c, plantType |-> t, placementMethod |-> m]

\* findCellForPoint's null
NoCell == VoronoiCell(0 - 1, [x |-> 0, y |-> 0], "none", "none")

\* getPlantDataForPosition's null
NoPlantData == [plantType |-> "none", placementMethod |-> "none"]

(***************************************************************************)
(* buildSpatialGrid: every cell is pushed on the list of each bucket in    *)
(* its influence range; the grid is the Map from the key "gx,gy" (here     *)
(* <<gx, gy>>) to that list.  A key that was never set is not in DOMAIN.   *)
(***************************************************************************)
\* Math.floor((c - gridSize * 1.5) / gridSize) = floor((floor(2c/g) - 3) / 2)
FloorMinus(c, g) == (FloorG(2 * c, g) - 3) \div 2
\* Math.floor((c + gridSize * 1.5) / gridSize) = floor((floor(2c/g) + 3) / 2)
FloorPlus(c, g) == (FloorG(2 * c, g) + 3) \div 2

\* A faulty range that misses the seed's own bucket.
FarBucketsOnly(cell, w, h, g) == {<<FloorG(2 * w, g) + 5, 0>>}

InfluenceRange(cell, w, h, g) ==
    LET minX == Max(0, FloorMinus(cell.center.x, g))
        maxX == Min(FloorG(2 * w, g), FloorPlus(cell.center.x, g))
        minY == Max(0, FloorMinus(cell.center.y, g))
        maxY == Min(FloorG(2 * h, g), FloorPlus(cell.center.y, g))
    IN (minX..maxX) \X (minY..maxY)

AddToGrid(grid, cell, w, h, g) ==
    LET range == InfluenceRange(cell, w, h, g)
    IN [key \in (DOMAIN grid) \cup range |->
           IF key \in range
           THEN (IF key \in DOMAIN grid THEN Append(grid[key], cell) ELSE <<cell>>)
           ELSE grid[key]]

RECURSIVE buildSpatialGridFrom(_, _, _, _, _, _)
buildSpatialGridFrom(cells, k, grid, w, h, g) ==
    IF k > Len(cells) THEN grid
    ELSE buildSpatialGridFrom(cells, k + 1, AddToGrid(grid, cells[k], w, h, g), w, h, g)

buildSpatialGrid(cells, w, h, g) ==
    buildSpatialGridFrom(cells, 1, [key \in {} |-> <<>>], w, h, g)

\* The VoronoiSystem generateVoronoiCells returns for the cells it made.
MakeVoronoiSystem(cells, w, h, n) ==
    [cells |-> cells, width |-> w, height |-> h,
     grid |-> buildSpatialGrid(cells, w, h, GridSizeOf(w, h, n)),
     gridSize |-> GridSizeOf(w, h, n)]

(***************************************************************************)
(* findCellForPoint and its fallback.                                      *)
(***************************************************************************)
\* for dx = -1..1, for dy = -1..1
NeighborOffsets ==
    << <<0 - 1, 0 - 1>>, <<0 - 1, 0>>, <<0 - 1, 1>>,
       <<0, 0 - 1>>, <<0, 0>>, <<0, 1>>,
       <<1, 0 - 1>>, <<1, 0>>, <<1, 1>> >>

RECURSIVE CollectCandidates(_, _, _, _)
CollectCandidates(grid, gw, gh, k) ==
    IF k > Len(NeighborOffsets) THEN <<>>
    ELSE LET key == <<gw + NeighborOffsets[k][1], gh + NeighborOffsets[k][2]>>
             here == IF key \in DOMAIN grid THEN grid[key] ELSE <<>>
         IN here \o CollectCandidates(grid, gw, gh, k + 1)

\* candidates.filter((cell, index) => candidates.findIndex(c => c.id === cell.id) === index)
RECURSIVE UniqueFrom(_, _)
UniqueFrom(cands, k) ==
    IF k > Len(cands) THEN <<>>
    ELSE (IF \A j \in 1..(k - 1) : cands[j].id # cands[k].id THEN <<cands[k]>> ELSE <<>>)
         \o UniqueFrom(cands, k + 1)

\* The scan "closest = first; for i = 1..: if (distance < closestDistance) ..."
RECURSIVE ClosestFrom(_, _, _, _)
ClosestFrom(cands, point, k, closest) ==
    IF k > Len(cands) THEN closest
    ELSE ClosestFrom(cands, point, k + 1,
             IF Dist2(point, cands[k].center) < Dist2(point, closest.center)
             THEN cands[k] ELSE closest)

\* A faulty lookup that gives up when the window is empty, to test C5.
GivesUpWithoutScan(point, sys) == NoCell

findCellForPointFallback(point, sys) ==
    ClosestFrom(sys.cells, point, 2, sys.cells[1])

WindowCandidates(point, sys) ==
    UniqueFrom(CollectCandidates(sys.grid, FloorG(point.x, sys.gridSize),
                                 FloorG(point.y, sys.gridSize), 1), 1)

findCellForPoint(point, sys) ==
    IF Len(sys.cells) = 0 THEN NoCell
    ELSE LET uniqueCandidates == WindowCandidates(point, sys)
         IN IF Len(uniqueCandidates) = 0
            THEN findCellForPointFallback(point, sys)
            ELSE ClosestFrom(uniqueCandidates, point, 2, uniqueCandidates[1])

\* A faulty lookup that never answers null, to test C10.
AlwaysSomePlantData(point, sys) ==
    [plantType |-> PlantType.BUSH, placementMethod |-> "placeEmpty"]

\* x, y are real units here (the callers pass grid coordinates or any number).
getPlantDataForPosition(point, sys) ==
    LET cell == findCellForPoint(point, sys)
    IN IF cell = NoCell THEN NoPlantData
       ELSE [plantType |-> cell.plantType, placementMethod |-> cell.placementMethod]

(***************************************************************************)
(* Inputs of the model: the planes generateVoronoiCells is called for, the *)
(* points Math.random() * width, Math.random() * height lands on, what the *)
(* caller's getPlantType / getPlacementMethod callbacks return, and the    *)
(* points that are looked up.  All coordinates in half units.              *)
(***************************************************************************)
Planes == { [width |-> 500, height |-> 10], [width |-> 32, height |-> 32] }

\* On the 500 x 10 plane: (80,5), (82,5), (83,5), (380,5), (499.5, 9.5).
CandidateCenters(w, h) ==
    { [x |-> (32 * w) \div 100, y |-> h],
      [x |-> (32 * w) \div 100 + 4, y |-> h],
      [x |-> (32 * w) \div 100 + 6, y |-> h],
      [x |-> (152 * w) \div 100, y |-> h],
      [x |-> 2 * w - 1, y |-> 2 * h - 1] }

\* (plantType, placementMethod) pairs the two callbacks return for a seed.
Classifications ==
    { <<PlantType.BUSH, "placeFull">>, <<PlantType.BUSH, "placeEmpty">>,
      <<PlantType.BALE, "placeRows">> }

\* On the 500 x 10 plane: (0,0), (247,5), (400,5).
QueryPoints(w, h) ==
    { [x |-> 0, y |-> 0],
      [x |-> (988 * w) \div 1000, y |-> h],
      [x |-> (16 * w) \div 10, y |-> h] }

Heightmap(w, h, seed) == [width |-> w, height |-> h, seed |-> seed]

VARIABLES
    gen,        \* the call of generateVoronoiCells: its arguments and locals
    seedLog,    \* history: per accepted seed, how its sampling loop ended
    bestDraw,   \* history: the best candidate drawn so far for the current seed
    query       \* the last getPlantDataForPosition call and its result

voronoiVars == <<gen, seedLog, bestDraw, query>>

VARIABLES
    variant,          \* which HillSceneContent of HillScene.tsx: "current" or "older"
    mounted,          \* the component is mounted
    props,            \* the props (dependencies) of the last render
    terrainMesh,      \* useState terrainMesh: 0 for null, else the run that made it
    plantInstancers,  \* useState plantInstancers
    runs,             \* the createScene() calls: one per run of the effect
    nEffects,         \* how many times the scene-creation effect has run
    cleanupRun,       \* the run whose cleanup the effect returned (0: none)
    disposed          \* the instancers dispose() was called on

sceneVars == <<variant, mounted, props, terrainMesh, plantInstancers, runs,
               nEffects, cleanupRun, disposed>>

VARIABLES
    hm,        \* the generateHeightmap call under way, or the last one
    hmPrev,    \* the generateHeightmap call before it
    fbmCall    \* the last generateFBM call made on its own, and its result

terrainVars == <<hm, hmPrev, fbmCall>>

VARIABLES
    placementCache,   \* the module-level Map of the cached placement methods
    lastPlacement     \* the last call of a placement method, and what it returned

cacheVars == <<placementCache, lastPlacement>>

VARIABLES
    instancer   \* a PlantInstancer object, with the last call made on it

instancerVars == <<instancer>>

vars == <<gen, seedLog, bestDraw, query, variant, mounted, props, terrainMesh,
          plantInstancers, runs, nEffects, cleanupRun, disposed, hm, hmPrev, fbmCall,
          placementCache, lastPlacement, instancer>>

NoQuery == [asked |-> FALSE, point |-> [x |-> 0, y |-> 0], data |-> NoPlantData,
            cell |-> NoCell, fallback |-> FALSE]

IdleGen ==
    [pc |-> "idle", width |-> 0, height |-> 0, numCells |-> 0,
     heightmap |-> Heightmap(0, 0, 0), i |-> 0, attempts |-> 0,
     center |-> [x |-> 0, y |-> 0], centers |-> <<>>, cells |-> <<>>,
     system |-> MakeVoronoiSystem(<<>>, 0, 0, 0)]

\* Smallest squared distance from p to an accepted center (0 when there is none).
RECURSIVE MinDist2From(_, _, _, _)
MinDist2From(p, cs, k, best) ==
    IF k > Len(cs) THEN best
    ELSE MinDist2From(p, cs, k + 1, Min(best, Dist2(p, cs[k])))

MinDist2(p, cs) == IF Len(cs) = 0 THEN 0 ELSE MinDist2From(p, cs, 2, Dist2(p, cs[1]))

\* History only: the draw lying farthest from the accepted centers so far
\* (the earliest one among equals).
NoDraw == [drawn |-> FALSE, d2 |-> 0, center |-> [x |-> 0, y |-> 0]]

Better(b, c, cs) ==
    IF b.drawn /\ b.d2 >= MinDist2(c, cs) THEN b
    ELSE [drawn |-> TRUE, d2 |-> MinDist2(c, cs), center |-> c]

\* A faulty sampler that pushes the best draw of the loop, to test C7.
PushesBestDraw(c, b) == b.center

\* A faulty sampler that pushes a point twice as far from the origin.
PushesScaledDraw(c, b) == [x |-> 2 * c.x, y |-> 2 * c.y]

\* centers.push(center): the center pushed is the one the last pass drew.
PushedCenter(c, b) == c

\* A faulty do-while condition that lets a 101st draw happen, to test C6.
KeepsSamplingPastCap(att, c, cs, w, h, n) ==
    att <= MaxAttempts /\ Conflicts(c, cs, w, h, n)

\* The do-while condition after `attempts` draws, the last one being c.
KeepSampling(att, c, cs, w, h, n) ==
    att < MaxAttempts /\ Conflicts(c, cs, w, h, n)

\* A faulty return that classifies the seeds anew.
ReturnsReclassified(g, cells) ==
    [g EXCEPT !.pc = "built",
              !.cells = [k \in 1..Len(cells) |->
                            [cells[k] EXCEPT !.plantType = PlantType.CYPRESS]],
              !.system = MakeVoronoiSystem(cells, g.width, g.height, g.numCells)]

\* The function returns: the spatial grid is built over the cells made.
Returned(g, cells) ==
    [g EXCEPT !.pc = "built", !.cells = cells,
              !.system = MakeVoronoiSystem(cells, g.width, g.height, g.numCells)]

\* generateVoronoiCells is called; with numCells = 0 the for loop is skipped.
GenerateStart ==
    /\ gen.pc = "idle"
    /\ \E plane \in Planes, n \in 0..MaxCells :
         LET g == [IdleGen EXCEPT !.pc = "sampling", !.width = plane.width,
                       !.height = plane.height, !.numCells = n,
                       !.heightmap = Heightmap(plane.width, plane.height, 0)]
         IN gen' = IF n = 0 THEN Returned(g, <<>>) ELSE g
    /\ seedLog' = <<>>
    /\ bestDraw' = NoDraw
    /\ UNCHANGED <<query, sceneVars, terrainVars, cacheVars, instancerVars>>

\* One pass of the do-while body whose condition holds: draw again.
SampleRetry ==
    /\ gen.pc = "sampling"
    /\ \E c \in CandidateCenters(gen.width, gen.height) :
         /\ KeepSampling(gen.attempts + 1, c, gen.centers, gen.width, gen.height, gen.numCells)
         /\ gen' = [gen EXCEPT !.attempts = gen.attempts + 1, !.center = c]
         /\ bestDraw' = Better(bestDraw, c, gen.centers)
    /\ UNCHANGED <<seedLog, query, sceneVars, terrainVars, cacheVars, instancerVars>>

\* The pass that ends the do-while: the center is pushed, classified and
\* stored as a cell; after the last seed the grid is built and returned.
SampleAccept ==
    /\ gen.pc = "sampling"
    /\ \E c \in CandidateCenters(gen.width, gen.height), cl \in Classifications :
         LET att == gen.attempts + 1
             center == PushedCenter(c, Better(bestDraw, c, gen.centers))
             iX == Round(center.x)
             iZ == Round(center.y)
             y == HeightmapAt(gen.heightmap, iX + iZ * gen.width)
             cell == VoronoiCell(gen.i, center, cl[1], cl[2])
             cells == Append(gen.cells, cell)
             g == [gen EXCEPT !.attempts = 0, !.center = center, !.i = gen.i + 1,
                              !.centers = Append(gen.centers, center), !.cells = cells]
         IN /\ ~KeepSampling(att, c, gen.centers, gen.width, gen.height, gen.numCells)
            /\ gen' = IF gen.i + 1 = gen.numCells THEN Returned(g, cells) ELSE g
            /\ seedLog' = Append(seedLog,
                   [attempts |-> IF att = MaxAttempts THEN "cap" ELSE "below",
                    exhausted |-> Conflicts(c, gen.centers, gen.width, gen.height, gen.numCells),
                    lastDraw |-> c,
                    best |-> MinDist2(center, gen.centers)
                                 >= Better(bestDraw, c, gen.centers).d2,
                    iX |-> iX, iZ |-> iZ, y |-> y])
    /\ bestDraw' = NoDraw
    /\ UNCHANGED <<query, sceneVars, terrainVars, cacheVars, instancerVars>>

\* getPlantDataForPosition on the finished system.
Query ==
    /\ gen.pc = "built"
    /\ \E p \in QueryPoints(gen.width, gen.height) :
         query' = [asked |-> TRUE, point |-> p,
                   data |-> getPlantDataForPosition(p, gen.system),
                   cell |-> findCellForPoint(p, gen.system),
                   fallback |-> Len(gen.system.cells) > 0
                                /\ Len(WindowCandidates(p, gen.system)) = 0]
    /\ UNCHANGED <<gen, seedLog, bestDraw, sceneVars, terrainVars, cacheVars,
                   instancerVars>>

(***************************************************************************)
(* Placement predicates (utils/plants/placement.ts).  The stochastic ones  *)
(* (placeDense, placeRandom, placeSparse) draw Math.random() per cell and  *)
(* are not among the rules the modelled callers hand out.                  *)
(***************************************************************************)
placementMethod(name, worldX, worldY) ==
    CASE name = "placeEmpty" -> FALSE
      [] name = "placeFull" -> TRUE
      [] name = "placeRows" -> worldX % 2 = 0
      [] name = "placeColumns" -> worldY % 2 = 0
      [] name = "placeCheckerboard" -> (worldX + worldY) % 2 = 0
      [] name = "placeDiagonal" -> (worldX + worldY) % 3 = 0

\* The placementMethods table of arrow functions (the older one, without a
\* cache), by property name.
olderPlacementMethod(name, x, y) ==
    CASE name = "placeEmpty" -> FALSE
      [] name = "placeDense" -> TRUE
      [] name = "placeRows" -> y % 2 = 0
      [] name = "placeColumns" -> x % 2 = 0
      [] name = "placeDiagonal" -> (x - y) % 4 = 0
      [] name = "placeBackDiagonal" -> (x + y) % 4 = 0
      [] name = "placeGrid" -> x % 2 = 0 /\ y % 2 = 0
      [] name = "placeCheckerboard" -> (x + y) % 2 = 0

(***************************************************************************)
(* The placementMethods table with the cache.  Each method hands its       *)
(* predicate, an arrow function written in the argument list, to           *)
(* getCachedPlacement.                                                     *)
(***************************************************************************)
\* The arrow function that method `name` passes to getCachedPlacement.
CachedPredicate(name, x, y) ==
    CASE name = "placeRows" -> x % 2 = 0
      [] name = "placeColumns" -> y % 2 = 0
      [] name = "placeCheckerboard" -> (x + y) % 2 = 0
      [] name = "placeDiagonal" -> (x + y) % 3 = 0
      [] name = "placeSparse" -> (x + y) % 4 = 0

\* The `name` property of that arrow function: a function expression in an
\* argument list is anonymous, and its name is the empty string.
ArrowName(name) == ""

\* method.name || 'unknown'
MethodName(fname) == IF fname = "" THEN "unknown" ELSE fname

\* `${worldX},${worldY},${methodName}`
getCacheKey(worldX, worldY, methodName) == <<worldX, worldY, methodName>>

\* new Map<string, boolean>().  An entry also records, as history, the method
\* and the createScene run that computed it.
EmptyCache == <<>>

\* getCachedPlacement(worldX, worldY, method) called by method `name` in
\* createScene run `run` (0: outside a run): what it returns, the Map after
\* it, and the entry when the value came from the Map.
getCachedPlacement(cache, worldX, worldY, name, run) ==
    LET cacheKey == getCacheKey(worldX, worldY, MethodName(ArrowName(name)))
    IN IF cacheKey \in DOMAIN cache
       THEN [result |-> cache[cacheKey].value, cache |-> cache,
             hit |-> TRUE, from |-> cache[cacheKey]]
       ELSE [result |-> CachedPredicate(name, worldX, worldY),
             cache |-> (cacheKey :> [value |-> CachedPredicate(name, worldX, worldY),
                                     name |-> name, run |-> run]) @@ cache,
             hit |-> FALSE,
             from |-> [value |-> CachedPredicate(name, worldX, worldY),
                       name |-> name, run |-> run]]

\* The deterministic methods of the three tables; of the table with the
\* cache, the three that the scenes of the model use.
PlacementTables == {"current", "older", "cached"}

MethodsOf(table) ==
    CASE table = "current" -> {"placeEmpty", "placeFull", "placeRows", "placeColumns",
                               "placeCheckerboard", "placeDiagonal"}
      [] table = "older" -> {"placeEmpty", "placeDense", "placeRows", "placeColumns",
                             "placeDiagonal", "placeBackDiagonal", "placeGrid",
                             "placeCheckerboard"}
      [] table = "cached" -> {"placeRows", "placeColumns", "placeCheckerboard"}

NoPlacement ==
    [called |-> FALSE, table |-> "current", name |-> "placeEmpty", x |-> 0, y |-> 0,
     result |-> FALSE, hit |-> FALSE, from |-> "placeEmpty"]

\* A placement method of one of the tables is called at a coordinate; the
\* tables without a cache are called before the Map is filled.
CallPlacement ==
    /\ \E table \in PlacementTables, x \in 0..MaxCoord, y \in 0..MaxCoord :
         \E name \in MethodsOf(table) :
            /\ (table # "cached") => placementCache = EmptyCache
            /\ LET got == getCachedPlacement(placementCache, x, y, name, 0)
               IN IF table = "cached"
                  THEN /\ placementCache' = got.cache
                       /\ lastPlacement' = [called |-> TRUE, table |-> table, name |-> name,
                                            x |-> x, y |-> y, result |-> got.result,
                                            hit |-> got.hit, from |-> got.from.name]
                  ELSE /\ placementCache' = placementCache
                       /\ lastPlacement' =
                             [called |-> TRUE, table |-> table, name |-> name,
                              x |-> x, y |-> y,
                              result |-> IF table = "current"
                                         THEN placementMethod(name, x, y)
                                         ELSE olderPlacementMethod(name, x, y),
                              hit |-> FALSE, from |-> name]
    /\ UNCHANGED <<voronoiVars, sceneVars, terrainVars, instancerVars>>

\* clearPlacementCache()
ClearPlacementCache ==
    /\ placementCache' = EmptyCache
    /\ UNCHANGED <<lastPlacement, voronoiVars, sceneVars, terrainVars, instancerVars>>

IdlePlacement ==
    /\ placementCache = EmptyCache
    /\ lastPlacement = NoPlacement

(***************************************************************************)
(* The PlantInstancer class.                                               *)
(***************************************************************************)
\* new PlantInstancer(config, maxInstances), made by run `owner` for `key`
PlantInstancer(owner, key, type, maxInstances) ==
    [owner |-> owner, key |-> key, type |-> type,
     maxCount |-> maxInstances, count |-> 0, positions |-> <<>>]

\* A faulty addInstance without the test of the capacity.
AddsAlways(inst, position) ==
    [inst EXCEPT !.positions = Append(inst.positions, position),
                 !.count = inst.count + 1]

addInstance(inst, position) ==
    IF inst.count >= inst.maxCount THEN inst
    ELSE [inst EXCEPT !.positions = Append(inst.positions, position),
                      !.count = inst.count + 1]

\* positions.forEach(position => instancer.addInstance(position)), positions
\* lo..hi, split in halves so that the evaluation stays shallow (the test on
\* left.count only makes the first half be evaluated before the second).
RECURSIVE AddInstances(_, _, _, _)
AddInstances(inst, positions, lo, hi) ==
    IF lo > hi THEN inst
    ELSE IF lo = hi THEN addInstance(inst, positions[lo])
    ELSE LET mid == (lo + hi) \div 2
             left == AddInstances(inst, positions, lo, mid)
         IN IF left.count >= 0
            THEN AddInstances(left, positions, mid + 1, hi)
            ELSE left

\* What addInstance returns: -1, or `return this.count++`.
addInstanceResult(inst) ==
    IF inst.count >= inst.maxCount THEN 0 - 1 ELSE inst.count

\* removeInstance of the older class, index counted from 0.  positions holds
\* the matrices of the slots 0..count-1 of the instanced mesh: the last one
\* is moved to the freed slot.
removeInstance(inst, index) ==
    IF index >= inst.count THEN inst
    ELSE LET moved == IF index < inst.count - 1
                      THEN [inst.positions EXCEPT ![index + 1] =
                                inst.positions[inst.count]]
                      ELSE inst.positions
         IN [inst EXCEPT !.positions = SubSeq(moved, 1, inst.count - 1),
                         !.count = inst.count - 1]

getTotalCount(inst) == inst.count

\* The positions a PlantInstancer is handed on its own.
InstancePositions == { [x |-> 0, y |-> 0, z |-> 0], [x |-> 4, y |-> 10, z |-> 0 - 4] }

PositionLists ==
    UNION { [1..n -> InstancePositions] : n \in 0..MaxInstances }

NoInstancer ==
    [op |-> "none", version |-> "current",
     obj |-> PlantInstancer(0, <<>>, PlantType.BUSH, 0),
     given |-> <<>>, position |-> [x |-> 0, y |-> 0, z |-> 0], index |-> 0,
     result |-> 0]

IdleInstancer == instancer = NoInstancer

\* new PlantInstancer(config, maxInstances) of either class
NewInstancer ==
    /\ instancer.op = "none"
    /\ \E version \in {"current", "older"}, maxInstances \in 0..MaxInstances :
         instancer' = [instancer EXCEPT
                          !.op = "new", !.version = version,
                          !.obj = PlantInstancer(0, <<>>, PlantType.BUSH, maxInstances)]
    /\ UNCHANGED <<voronoiVars, sceneVars, terrainVars, cacheVars>>

\* The pipeline's construction for one group: new PlantInstancer(config,
\* positions.length), then addInstance for every position.
InstancerForGroup ==
    /\ instancer.op = "none"
    /\ \E positions \in PositionLists :
         instancer' = [instancer EXCEPT
                          !.op = "forEach", !.given = positions,
                          !.obj = AddInstances(PlantInstancer(0, <<>>, PlantType.BUSH,
                                                              Len(positions)),
                                               positions, 1, Len(positions))]
    /\ UNCHANGED <<voronoiVars, sceneVars, terrainVars, cacheVars>>

AddInstance ==
    /\ instancer.op # "none"
    /\ \E position \in InstancePositions :
         instancer' = [instancer EXCEPT
                          !.op = "addInstance", !.position = position,
                          !.obj = addInstance(instancer.obj, position),
                          !.result = addInstanceResult(instancer.obj)]
    /\ UNCHANGED <<voronoiVars, sceneVars, terrainVars, cacheVars>>

\* removeInstance exists in the older class only.
RemoveInstance ==
    /\ instancer.op # "none"
    /\ instancer.version = "older"
    /\ \E index \in 0..MaxInstances :
         instancer' = [instancer EXCEPT
                          !.op = "removeInstance", !.index = index,
                          !.obj = removeInstance(instancer.obj, index)]
    /\ UNCHANGED <<voronoiVars, sceneVars, terrainVars, cacheVars>>

(***************************************************************************)
(* The placement loop of createScene.  plantGroups is the Map in insertion *)
(* order: a sequence of [key, type, positions].  A position holds twice    *)
(* the world x and z and twenty times the world y, to stay in integers.    *)
(***************************************************************************)
\* Faulty loops that start at 0 in both components, to test C11.
StartsAtZero(v) == 0

\* The loops start at 1 in the current component and at 0 in the older one.
LoopStart(v) == IF v = "current" THEN 1 ELSE 0

\* A faulty key that puts every position on the list of the bushes.
OneKeyForAll(v, data) == <<PlantType.BUSH>>

\* The Map key: plantType, or `${plantType}-${methodName}` in the older one.
GroupKey(v, data) ==
    IF v = "current" THEN <<data.plantType>>
    ELSE <<data.plantType, data.placementMethod>>

HasGroup(groups, key) == \E k \in 1..Len(groups) : groups[k].key = key

GroupIndex(groups, key) == CHOOSE k \in 1..Len(groups) : groups[k].key = key

WorldPosition(p, type, x, y) ==
    [x |-> (2 * x - p.gridWidth) * plantSpacing,
     y |-> 2 * HeightmapAt(p.heightmap, y * p.gridWidth + x) * heightScale
           + (IF type = PlantType.BALE THEN plantSize ELSE plantSize \div 2),
     z |-> (2 * y - p.gridHeight) * plantSpacing]

\* if (!plantData) continue;  -- the cell is neither counted nor followed by a yield
SkipsCell(data) == data = NoPlantData

\* placementMethod(x, y) for the cell (st.x, st.y) in run st.run: a method of
\* the current table in the current component, a method of the table with
\* the cache in the older one.
Decision(st, v, data) ==
    IF SkipsCell(data) THEN [result |-> FALSE, cache |-> st.cache, overridden |-> FALSE]
    ELSE IF v = "current"
    THEN [result |-> placementMethod(data.placementMethod, st.x, st.y),
          cache |-> st.cache, overridden |-> FALSE]
    ELSE LET got == getCachedPlacement(st.cache, st.x, st.y, data.placementMethod, st.run)
         IN [result |-> got.result, cache |-> got.cache,
             \* history: the value came from an entry that a later run computed,
             \* and is not what this run's own method gives here
             overridden |-> /\ got.hit
                            /\ got.from.run > st.run
                            /\ got.result # CachedPredicate(data.placementMethod,
                                                            st.x, st.y)]

\* The body of the inner loop for cell (st.x, st.y) once plantData and the
\* placement decision are known, then x++.
PlaceCell(st, p, v, data, decision) ==
    LET key == GroupKey(v, data)
        g1 == IF HasGroup(st.plantGroups, key) THEN st.plantGroups
              ELSE Append(st.plantGroups,
                          [key |-> key, type |-> data.plantType, positions |-> <<>>])
        gi == GroupIndex(g1, key)
        g2 == IF decision.result
              THEN [g1 EXCEPT ![gi].positions =
                        Append(@, WorldPosition(p, data.plantType, st.x, st.y))]
              ELSE g1
    IN IF SkipsCell(data)
       THEN [st EXCEPT !.x = st.x + 1, !.visited = st.visited + 1]
       ELSE [st EXCEPT !.x = st.x + 1, !.visited = st.visited + 1,
                       !.plantGroups = g2,
                       !.cache = decision.cache,
                       !.overridden = IF decision.overridden THEN st.overridden + 1
                                      ELSE st.overridden,
                       !.processedCount = st.processedCount + 1,
                       !.yielded = (st.processedCount + 1) % batchSize = 0]

DecideCell(st, p, v, data) == PlaceCell(st, p, v, data, Decision(st, v, data))

\* const plantData = getPlantDataForPosition(x, y, voronoiSystem), then the body.
ProcessCell(st, p, v) ==
    DecideCell(st, p, v,
               getPlantDataForPosition([x |-> 2 * st.x, y |-> 2 * st.y], p.voronoiSystem))

\* The inner loop, up to the end of the row or to the next await.
RECURSIVE RunRow(_, _, _)
RunRow(st, p, v) ==
    IF st.yielded \/ st.x >= p.gridWidth THEN st
    ELSE RunRow(ProcessCell(st, p, v), p, v)

\* The outer loop, up to its end (st.y = gridHeight) or to the next await.
RECURSIVE RunRows(_, _, _)
RunRows(st, p, v) ==
    IF st.y >= p.gridHeight THEN st
    ELSE LET row == RunRow(st, p, v)
         IN IF row.yielded THEN row
            ELSE RunRows([row EXCEPT !.x = LoopStart(v), !.y = row.y + 1], p, v)

\* plantGroups.forEach: one instancer per key, sized to its list.
RECURSIVE CreateInstancers(_, _, _)
CreateInstancers(owner, groups, k) ==
    IF k > Len(groups) THEN <<>>
    ELSE <<AddInstances(PlantInstancer(owner, groups[k].key, groups[k].type,
                                       Len(groups[k].positions)),
                        groups[k].positions, 1, Len(groups[k].positions))>>
         \o CreateInstancers(owner, groups, k + 1)

\* A faulty hand-off that ignores the cancellation flag, to test C2.
PublishesAlways(run) == TRUE

\* A faulty hand-off that never publishes.
PublishesNever(run) == FALSE

\* if (!isCancelled) { setTerrainMesh(terrain); setPlantInstancers(instancers); }
ShouldPublish(run) == ~run.isCancelled

(***************************************************************************)
(* The props a scene is rendered with.  The partition is what              *)
(* generateVoronoiCells returns for numVoronoiCells seeds on the grid.     *)
(***************************************************************************)
RECURSIVE CellsFromSeeds(_, _)
CellsFromSeeds(seeds, k) ==
    IF k > Len(seeds) THEN <<>>
    ELSE <<VoronoiCell(k - 1, seeds[k].center, seeds[k].class[1], seeds[k].class[2])>>
         \o CellsFromSeeds(seeds, k + 1)

Seed(x, y, class) == [center |-> [x |-> x, y |-> y], class |-> class]

\* The scenes of the model, as grid side and seed list: no seed or one seed
\* in the middle on the large grid; no seed or two seeds side by side on the
\* small one.
SceneInputs ==
    { [size |-> LargeGrid, seeds |-> <<>>],
      [size |-> LargeGrid,
       seeds |-> <<Seed(LargeGrid, LargeGrid, <<PlantType.BUSH, "placeEmpty">>)>>],
      [size |-> SmallGrid, seeds |-> <<>>],
      [size |-> SmallGrid,
       seeds |-> <<Seed(SmallGrid, SmallGrid, <<PlantType.BUSH, "placeFull">>)>>],
      [size |-> SmallGrid,
       seeds |-> <<Seed(SmallGrid \div 2, SmallGrid, <<PlantType.BUSH, "placeFull">>),
                   Seed((3 * SmallGrid) \div 2, SmallGrid,
                        <<PlantType.BALE, "placeRows">>)>>] }

\* The scenes of the older component, whose placement methods are those of
\* the table with the cache: one seed in the middle of the large grid, with
\* placeRows or with placeColumns, and two seeds side by side on the small one.
OlderSceneInputs ==
    { [size |-> LargeGrid,
       seeds |-> <<Seed(LargeGrid, LargeGrid, <<PlantType.BUSH, "placeRows">>)>>],
      [size |-> LargeGrid,
       seeds |-> <<Seed(LargeGrid, LargeGrid, <<PlantType.BUSH, "placeColumns">>)>>],
      [size |-> SmallGrid,
       seeds |-> <<Seed(SmallGrid \div 2, SmallGrid, <<PlantType.BUSH, "placeCheckerboard">>),
                   Seed((3 * SmallGrid) \div 2, SmallGrid,
                        <<PlantType.BALE, "placeRows">>)>>] }

\* The older HillScene calls generateVoronoiCells with
\* props.numVoronoiCells || DEFAULT_NUM_VORONOI_CELLS: it never asks for 0 cells.
InputsOf(v) == IF v = "current" THEN SceneInputs ELSE OlderSceneInputs

SceneProps(size, seeds, regenerationCounter) ==
    [gridWidth |-> size, gridHeight |-> size, numVoronoiCells |-> Len(seeds),
     heightmap |-> Heightmap(size, size, regenerationCounter),
     voronoiSystem |-> MakeVoronoiSystem(CellsFromSeeds(seeds, 1), size, size, Len(seeds))]

NoProps == SceneProps(0, <<>>, 0)

\* A createScene() call that has not been made.
NoRun ==
    [pc |-> "none", isCancelled |-> FALSE, props |-> NoProps,
     x |-> 0, y |-> 0, processedCount |-> 0, plantGroups |-> <<>>,
     instancers |-> <<>>, outcome |-> "none",
     \* history
     segment |-> 0, afterCancel |-> 0, visited |-> 0, cancelledAtEnd |-> FALSE,
     overridden |-> 0]

\* A cleanup that leaves isCancelled alone.
CancelsNothing(rs, r) == rs

Cancel(rs, r) == IF r = 0 THEN rs ELSE [rs EXCEPT ![r].isCancelled = TRUE]

InstancerIds(insts) == { <<insts[k].owner, insts[k].key>> : k \in 1..Len(insts) }

(***************************************************************************)
(* The scene-creation effect: the cleanup of its previous run, then its    *)
(* body up to the first await of createScene (createTerrainMesh).          *)
(***************************************************************************)
EffectRun ==
    /\ mounted
    /\ nEffects < MaxEffects
    /\ \E in \in InputsOf(variant) :
         LET r == nEffects + 1
             newProps == IF nEffects = 0 THEN props
                         ELSE SceneProps(in.size, in.seeds, nEffects)
             cleaned == Cancel(runs, cleanupRun)
             early == variant = "older" /\ terrainMesh # 0
         IN /\ (nEffects = 0) => (in.seeds # <<>> /\ in.size = LargeGrid)
            /\ props' = newProps
            /\ nEffects' = r
            /\ terrainMesh' = 0
            /\ plantInstancers' = IF terrainMesh # 0 THEN <<>> ELSE plantInstancers
            /\ disposed' = IF terrainMesh # 0
                           THEN disposed \cup InstancerIds(plantInstancers)
                           ELSE disposed
            /\ runs' = IF early THEN cleaned
                       ELSE [cleaned EXCEPT ![r] =
                                [NoRun EXCEPT !.pc = "awaitTerrain", !.props = newProps]]
            /\ cleanupRun' = IF early THEN 0 ELSE r
            \* the older HillScene: if (regenerationCounter > 0) clearPlacementCache()
            /\ placementCache' = IF variant = "older" /\ nEffects > 0 THEN EmptyCache
                                 ELSE placementCache
    /\ UNCHANGED <<variant, mounted, lastPlacement, voronoiVars, terrainVars,
                   instancerVars>>

\* createScene from where the loop stopped in st (its end, or an await) on.
Proceed(r, st) ==
    LET run == runs[r]
        seg == [run EXCEPT !.x = st.x, !.y = st.y,
                           !.processedCount = st.processedCount,
                           !.plantGroups = st.plantGroups,
                           !.segment = st.visited,
                           !.visited = run.visited + st.visited,
                           !.overridden = st.overridden,
                           !.afterCancel = IF run.isCancelled
                                           THEN run.afterCancel + st.visited
                                           ELSE run.afterCancel]
        instancers == CreateInstancers(r, st.plantGroups, 1)
    IN IF st.yielded
       THEN /\ runs' = [runs EXCEPT ![r] = [seg EXCEPT !.pc = "yielded"]]
            /\ placementCache' = st.cache
            /\ UNCHANGED <<terrainMesh, plantInstancers, disposed>>
       ELSE /\ placementCache' = st.cache
            /\ runs' = [runs EXCEPT ![r] =
                          [seg EXCEPT !.pc = "returned", !.instancers = instancers,
                                      !.cancelledAtEnd = run.isCancelled,
                                      !.outcome = IF ShouldPublish(run) THEN "published"
                                                  ELSE "discarded"]]
            /\ terrainMesh' = IF ShouldPublish(run) THEN r ELSE terrainMesh
            /\ plantInstancers' = IF ShouldPublish(run) THEN instancers
                                  ELSE plantInstancers
            /\ disposed' = IF ShouldPublish(run)
                           THEN disposed \cup InstancerIds(plantInstancers)
                           ELSE disposed

\* The rest of createScene from a resumption to its next await or its end.
Continue(r, st0) == Proceed(r, RunRows(st0, runs[r].props, variant))

\* createTerrainMesh resolves: `if (isCancelled) return`, else the loop starts.
TerrainResolved ==
    /\ \E r \in 1..MaxEffects :
         /\ runs[r].pc = "awaitTerrain"
         /\ IF runs[r].isCancelled
            THEN /\ runs' = [runs EXCEPT ![r].pc = "returned", ![r].outcome = "aborted"]
                 /\ UNCHANGED <<terrainMesh, plantInstancers, disposed, placementCache>>
            ELSE Continue(r, [x |-> LoopStart(variant), y |-> LoopStart(variant),
                              processedCount |-> 0, plantGroups |-> <<>>,
                              visited |-> 0, yielded |-> FALSE,
                              run |-> r, cache |-> placementCache, overridden |-> 0])
    /\ UNCHANGED <<variant, mounted, props, nEffects, cleanupRun, lastPlacement,
                   voronoiVars, terrainVars, instancerVars>>

\* The setTimeout(resolve, 0) of a yield fires: the loop goes on with x++.
Resume ==
    /\ \E r \in 1..MaxEffects :
         /\ runs[r].pc = "yielded"
         /\ Continue(r, [x |-> runs[r].x, y |-> runs[r].y,
                         processedCount |-> runs[r].processedCount,
                         plantGroups |-> runs[r].plantGroups,
                         visited |-> 0, yielded |-> FALSE,
                         run |-> r, cache |-> placementCache,
                         overridden |-> runs[r].overridden])
    /\ UNCHANGED <<variant, mounted, props, nEffects, cleanupRun, lastPlacement,
                   voronoiVars, terrainVars, instancerVars>>

\* The component unmounts: both effects' cleanups run.
Unmount ==
    /\ mounted
    /\ nEffects > 0
    /\ mounted' = FALSE
    /\ runs' = Cancel(runs, cleanupRun)
    /\ cleanupRun' = 0
    /\ disposed' = disposed \cup InstancerIds(plantInstancers)
    /\ UNCHANGED <<variant, props, terrainMesh, plantInstancers, nEffects, voronoiVars, terrainVars, cacheVars,
                   instancerVars>>

\* No highest point yet (let highestPoint = null).
NoPoint == [set |-> FALSE, x |-> 0, y |-> 0, height |-> 0]

NoArgs == [width |-> 0, height |-> 0, maxHillRadius |-> 0, roughness |-> 0,
           numHills |-> 0, seed |-> 0]

IdleHeightmap ==
    [pc |-> "idle", call |-> 0, version |-> "plain", args |-> NoArgs, table |-> 0,
     hills |-> <<>>, hillSum |-> <<>>, fbm |-> <<>>, i |-> 0, blend |-> <<>>,
     out |-> <<>>, highestPoint |-> NoPoint, normalized |-> FALSE]

NoFBM == [asked |-> FALSE, octaves |-> 0, table |-> 0, maxAmplitude |-> 0, field |-> <<>>]

IdleTerrain ==
    /\ hm = IdleHeightmap
    /\ hmPrev = IdleHeightmap
    /\ fbmCall = NoFBM

IdleScene ==
    /\ variant = "current"
    /\ mounted = FALSE
    /\ props = NoProps
    /\ terrainMesh = 0
    /\ plantInstancers = <<>>
    /\ runs = [r \in 1..MaxEffects |-> NoRun]
    /\ nEffects = 0
    /\ cleanupRun = 0
    /\ disposed = {}

IdleVoronoi ==
    /\ gen = IdleGen
    /\ seedLog = <<>>
    /\ bestDraw = NoDraw
    /\ query = NoQuery

(***************************************************************************)
(* Spec: the scene component, from its first render on, for either         *)
(* component and any partition of SceneInputs.                             *)
(***************************************************************************)
Init ==
    /\ IdleVoronoi
    /\ IdleTerrain
    /\ IdlePlacement
    /\ IdleInstancer
    /\ variant \in {"current", "older"}
    /\ mounted = TRUE
    /\ \E in \in InputsOf(variant) : props = SceneProps(in.size, in.seeds, 0)
    /\ terrainMesh = 0
    /\ plantInstancers = <<>>
    /\ runs = [r \in 1..MaxEffects |-> NoRun]
    /\ nEffects = 0
    /\ cleanupRun = 0
    /\ disposed = {}

Next == EffectRun \/ TerrainResolved \/ Resume \/ Unmount

Spec == Init /\ [][Next]_vars

(***************************************************************************)
(* SpecFair: the scene under a fair host: a createTerrainMesh promise that *)
(* is pending eventually resolves, and a zero-delay timer that is pending  *)
(* eventually fires.  Dependency changes and the unmount are up to the     *)
(* user and need not happen.                                               *)
(***************************************************************************)
\* createScene call r is suspended at an await.
Pending(r) == runs[r].pc \in {"awaitTerrain", "yielded"}

\* The continuation of call r runs: the step TerrainResolved or Resume takes
\* for r (no other step moves a suspended call or lets it visit cells).
Continuation(r) ==
    /\ Pending(r)
    /\ runs'[r].pc # runs[r].pc \/ runs'[r].visited # runs[r].visited

\* Weak fairness of each call's continuation, which is enabled exactly when
\* the call is suspended: WF_vars(Continuation(r)) written out.
FairHost ==
    \A r \in 1..MaxEffects :
        ([]<>(~Pending(r))) \/ ([]<><<Continuation(r)>>_vars)

SpecFair == Init /\ [][Next]_vars /\ FairHost

(***************************************************************************)
(* SpecVoronoi: calls of generateVoronoiCells and lookups on the result.   *)
(***************************************************************************)
InitVoronoi == IdleVoronoi /\ IdleScene /\ IdleTerrain /\ IdlePlacement /\ IdleInstancer

NextVoronoi == GenerateStart \/ SampleRetry \/ SampleAccept \/ Query

SpecVoronoi == InitVoronoi /\ [][NextVoronoi]_vars

(***************************************************************************)
(* Numbers of the terrain generator.  A double is an integer number of     *)
(* units of 2^-29 (so doubles are modelled with 29 fractional bits); a     *)
(* Float32Array entry is such a number with at most 24 significant bits,   *)
(* which is what a float32 holds.  NaN and Infinity are values of their    *)
(* own, outside the range of the numbers.                                  *)
(***************************************************************************)
Unit == 2^29

NaN == 0 - (2^30 + 1)
Infinity == 2^30 + 1

IsNumber(a) == a # NaN /\ a # Infinity

\* How many low bits a float32 drops from q units.
DroppedBits(q) ==
    CHOOSE s \in 0..7 : IF q < 2^24 THEN s = 0 ELSE (q \div 2^s) \in (2^23)..(2^24 - 1)

\* Round q units plus a fraction of a unit ("zero", "below", "half" or
\* "above" half a unit) to the nearest float32, ties to even.
RoundToFloat32(q, fraction) ==
    LET p == 2^DroppedBits(q)
        lo == q % p
        hi == q \div p
        rest == IF p = 1 THEN fraction
                ELSE IF 2 * lo > p THEN "above"
                ELSE IF 2 * lo = p THEN (IF fraction = "zero" THEN "half" ELSE "above")
                ELSE IF lo = 0 /\ fraction = "zero" THEN "zero"
                ELSE "below"
        up == rest = "above" \/ (rest = "half" /\ hi % 2 = 1)
    IN (IF up THEN hi + 1 ELSE hi) * p

\* Storing a double in a Float32Array: Math.fround.
Fround(a) == IF IsNumber(a) THEN RoundToFloat32(a, "zero") ELSE a

\* The bits of r / b after the binary point, 29 of them, by long division.
RECURSIVE DivBits(_, _, _, _)
DivBits(r, b, k, acc) ==
    IF k = 0 THEN [q |-> acc, r |-> r]
    ELSE IF 2 * r >= b THEN DivBits(2 * r - b, b, k - 1, 2 * acc + 1)
    ELSE DivBits(2 * r, b, k - 1, 2 * acc)

\* a / b for numbers a >= 0, b > 0: the quotient in units, and what is left.
LongDiv(a, b) == DivBits(a % b, b, 29, a \div b)

\* The double a / b (b # 0, NaN-free), cut to a whole number of units.
Quotient(a, b) ==
    IF a >= 0 THEN LongDiv(a, b).q ELSE 0 - LongDiv(0 - a, b).q

\* out[i] = out[i] / d: the float32 nearest to a / d; x / 0 is Infinity and
\* 0 / 0 is NaN.  (The code rounds to a double first; the two roundings
\* agree except next to a tie.)
StoreQuotient(a, d) ==
    IF a = NaN \/ d = NaN THEN NaN
    ELSE IF d = 0 THEN (IF a = 0 THEN NaN ELSE Infinity)
    ELSE IF a = Infinity THEN Infinity
    ELSE LET qr == LongDiv(a, d)
         IN RoundToFloat32(qr.q,
                IF qr.r = 0 THEN "zero"
                ELSE IF 2 * qr.r < d THEN "below"
                ELSE IF 2 * qr.r = d THEN "half"
                ELSE "above")

\* Arithmetic on doubles; NaN spreads.
Add(a, b) == IF a = NaN \/ b = NaN THEN NaN ELSE a + b

\* a * n / d for small whole numbers n, d > 0.
Times(a, n, d) ==
    IF a = NaN THEN NaN
    ELSE IF a >= 0 THEN (a \div d) * n + ((a % d) * n) \div d
    ELSE 0 - ((((0 - a) \div d) * n) + ((((0 - a) % d) * n) \div d))

\* a * b for doubles in [0, 1], to 2^-29.
Product(a, b) == IF a = NaN \/ b = NaN THEN NaN ELSE (a \div 2^15) * (b \div 2^14)

(***************************************************************************)
(* seededRandom and what the hills are built from.  Math.sin, Math.cos,    *)
(* Math.atan2 and Math.sqrt have no counterpart here: the fraction         *)
(* x - Math.floor(x) of Math.sin(seed) * 10000 is a fixed table of         *)
(* sixteenths, an angle is cut to a quarter turn, the lobes of the outline *)
(* (the noise of effectiveRadius) are left out, and a distance is the      *)
(* whole number of 32nds of a cell below the root.                         *)
(***************************************************************************)
\* x - Math.floor(x), in sixteenths, for the value `seed` has at the call.
SineFraction(seed) == (seed * seed * 7 + seed * 3 + 5) % 16

\* <<Math.cos(offsetAngle), Math.sin(offsetAngle)>> for offsetAngle = 2 pi f / 16.
Direction(f) ==
    CASE f \div 4 = 0 -> <<1, 0>>
      [] f \div 4 = 1 -> <<0, 1>>
      [] f \div 4 = 2 -> <<0 - 1, 0>>
      [] f \div 4 = 3 -> <<0, 0 - 1>>

\* Math.sqrt(n) in 32nds, rounded down.
Sqrt32(n) == CHOOSE k \in 0..(32 * n + 32) : k * k <= 1024 * n /\ (k + 1) * (k + 1) > 1024 * n

\* smootherstep(t) = 6 t^5 - 15 t^4 + 10 t^3 for t in [0, 1], summed in
\* sixteen-unit steps to stay within the integers.
smootherstep(t) ==
    IF t = NaN THEN NaN
    ELSE LET t3 == Product(Product(t, t), t)
             t4 == Product(t3, t)
             t5 == Product(t4, t)
         IN (6 * (t5 \div 16) - 15 * (t4 \div 16) + 10 * (t3 \div 16)) * 16

\* Math.max(0, Math.min(1, t))
Clamp01(t) == IF t = NaN THEN NaN ELSE Max(0, Min(Unit, t))

\* heights[y * width + x] of generateHill, for a center in whole cells and a
\* radius in 32nds of a cell.
HillSample(x, y, centerX, centerY, radius32) ==
    LET dx == x - centerX
        dy == y - centerY
        dist32 == Sqrt32(dx * dx + dy * dy)
    IN IF dist32 > radius32 THEN 0
       ELSE LET t == IF radius32 = 0 THEN NaN   \* 1 - 0 / 0
                     ELSE Unit - LongDiv(dist32, radius32).q
            IN smootherstep(Clamp01(t))

\* The i-th hill (i from 0) of a call: four seededRandom draws, then generateHill.
Hill(args, i) ==
    LET s == args.seed + 4 * i
        offsetAngle == SineFraction(s)
        offsetMagnitude == (SineFraction(s + 1) * args.maxHillRadius) \div 16
        centerX == args.width \div 2 + offsetMagnitude * Direction(offsetAngle)[1]
        centerY == args.height \div 2 + offsetMagnitude * Direction(offsetAngle)[2]
        baseRadius32 == (16 + SineFraction(s + 2)) * args.maxHillRadius
    IN [centerX |-> centerX, centerY |-> centerY, radius32 |-> baseRadius32,
        heights |-> [k \in 1..(args.width * args.height) |->
                        HillSample((k - 1) % args.width, (k - 1) \div args.width,
                                   centerX, centerY, baseRadius32)]]

Hills(args) == [i \in 1..args.numHills |-> Hill(args, i - 1)]

\* hillSum after the first n hills: hillSum[i] += hill[i] / numHills in the
\* normalizing generator, hillSum[i] += hill[i] in the other, in a Float32Array.
RECURSIVE HillSum(_, _, _, _)
HillSum(version, args, hills, n) ==
    IF n = 0 THEN [k \in 1..(args.width * args.height) |-> 0]
    ELSE LET before == HillSum(version, args, hills, n - 1)
         IN [k \in 1..(args.width * args.height) |->
                Fround(Add(before[k],
                           IF version = "normalizing"
                           THEN Times(hills[n].heights[k], 1, args.numHills)
                           ELSE hills[n].heights[k]))]

(***************************************************************************)
(* generateFBM.  createNoise2D() takes its permutation table from          *)
(* Math.random; a table is a number here, and noise2D a fixed function of  *)
(* the table and the sample, with values -1, -1/2, 0, 1/2, 1.              *)
(***************************************************************************)
NoiseTables == 1..2

noise2D(table, x, y, octave) ==
    (((table * (3 * x + 7 * y + octave + 1)) % 5) - 2) * (Unit \div 2)

\* maxAmplitude after the loop "for (i = 0; i < octaves; i++)", persistence 0.5.
RECURSIVE MaxAmplitude(_)
MaxAmplitude(octaves) ==
    IF octaves <= 0 THEN 0
    ELSE MaxAmplitude(octaves - 1) + Unit \div 2^(octaves - 1)

\* elevation after the first n octaves at (x, y).
RECURSIVE Elevation(_, _, _, _)
Elevation(table, x, y, n) ==
    IF n <= 0 THEN 0
    ELSE Elevation(table, x, y, n - 1) + noise2D(table, x, y, n - 1) \div 2^(n - 1)

\* elevation / (2 * maxAmplitude) + 0.5, stored in the Float32Array; the
\* division by 2 is exact, so it is taken first.
FBMSample(table, x, y, octaves) ==
    IF MaxAmplitude(octaves) = 0
    THEN NaN   \* 0 / 0 + 0.5
    ELSE Fround(Quotient(Elevation(table, x, y, octaves) \div 2, MaxAmplitude(octaves))
                + Unit \div 2)

generateFBM(table, width, height, octaves) ==
    [k \in 1..(width * height) |->
        FBMSample(table, (k - 1) % width, (k - 1) \div width, octaves)]

(***************************************************************************)
(* generateHeightmap, in its two versions: "normalizing" (the one that     *)
(* divides by the highest point) and "plain".                              *)
(***************************************************************************)
\* const height = hillSum[i] * 0.7 + fbm[i] * roughness * 0.3  (plain: 0.6 and
\* 0.4); roughness in tenths.
Blend(version, hillSum, fbm, roughness10) ==
    IF version = "normalizing"
    THEN Add(Times(hillSum, 7, 10), Times(Times(fbm, roughness10, 10), 3, 10))
    ELSE Add(Times(hillSum, 6, 10), Times(Times(fbm, 4, 10), roughness10, 10))

\* A comparison that lets a later cell of the same height win.
HigherOrEqual(a, b) == a # NaN /\ b # NaN /\ a >= b

\* height > highestPoint.height; false when either is NaN.
Higher(a, b) == a # NaN /\ b # NaN /\ a > b

\* if (!highestPoint || height > highestPoint.height) highestPoint = { x, y, height }
Highest(hp, x, y, height) ==
    IF ~hp.set \/ Higher(height, hp.height)
    THEN [set |-> TRUE, x |-> x, y |-> y, height |-> height]
    ELSE hp

\* A generator that divides whatever the highest height is.
NormalizesAlways(hp) == TRUE

\* if (highestPoint && highestPoint.height > 0)
ShouldNormalize(hp) == hp.set /\ Higher(hp.height, 0)

(***************************************************************************)
(* Calls of generateHeightmap and generateFBM.                             *)
(***************************************************************************)
\* roughness is in tenths: 0, 0.2 and DEFAULT_ROUGHNESS = 0.8.
HeightmapArgs ==
    [width : {MapSide}, height : {MapSide}, maxHillRadius : {0, MapSide},
     roughness : {0, 2, 8}, numHills : 0..MaxHills, seed : 0..MaxSeed]

\* generateHeightmap is called: the hills are generated and summed, and
\* generateFBM(width, height, 50, 4, 2, 0.5) draws its noise table.  The
\* calls after the first one repeat its arguments.
GenerateHeightmap ==
    /\ hm.pc \in {"idle", "returned"}
    /\ hm.call < MaxCalls
    /\ \E version \in {"normalizing", "plain"}, args \in HeightmapArgs,
          table \in NoiseTables :
         /\ (hm.call > 0) => (version = hm.version /\ args = hm.args)
         /\ hm' = [IdleHeightmap EXCEPT
                      !.pc = "scan", !.call = hm.call + 1, !.version = version,
                      !.args = args, !.table = table, !.hills = Hills(args),
                      !.hillSum = HillSum(version, args, Hills(args), args.numHills),
                      !.fbm = generateFBM(table, args.width, args.height, 4)]
    /\ hmPrev' = hm
    /\ UNCHANGED <<fbmCall, voronoiVars, sceneVars, cacheVars, instancerVars>>

\* One pass of the inner loop over the cells: blend, store, compare.
ScanCell ==
    /\ hm.pc = "scan"
    /\ LET k == hm.i + 1
           x == hm.i % hm.args.width
           y == hm.i \div hm.args.width
           height == Blend(hm.version, hm.hillSum[k], hm.fbm[k], hm.args.roughness)
       IN hm' = [hm EXCEPT
                    !.i = k,
                    !.blend = Append(hm.blend, height),
                    !.out = Append(hm.out, Fround(height)),
                    !.highestPoint = Highest(hm.highestPoint, x, y, height),
                    !.pc = IF k = hm.args.width * hm.args.height
                           THEN "scanned" ELSE "scan"]
    /\ UNCHANGED <<hmPrev, fbmCall, voronoiVars, sceneVars, cacheVars, instancerVars>>

\* The normalization: every entry is divided by the highest height, which
\* then becomes 1.
Normalize ==
    /\ hm.pc = "scanned"
    /\ hm.version = "normalizing"
    /\ ShouldNormalize(hm.highestPoint)
    /\ hm' = [hm EXCEPT
                 !.pc = "returned",
                 !.normalized = TRUE,
                 !.out = [k \in 1..Len(hm.out) |->
                             StoreQuotient(hm.out[k], hm.highestPoint.height)],
                 !.highestPoint = [hm.highestPoint EXCEPT !.height = Unit]]
    /\ UNCHANGED <<hmPrev, fbmCall, voronoiVars, sceneVars, cacheVars, instancerVars>>

\* return [out, highestPoint] without normalization.
ReturnUnnormalized ==
    /\ hm.pc = "scanned"
    /\ hm.version = "plain" \/ ~ShouldNormalize(hm.highestPoint)
    /\ hm' = [hm EXCEPT !.pc = "returned"]
    /\ UNCHANGED <<hmPrev, fbmCall, voronoiVars, sceneVars, cacheVars, instancerVars>>

\* generateFBM called on its own, with any number of octaves, once the
\* generateHeightmap calls have returned.
GenerateFBM ==
    /\ hm.pc = "returned"
    /\ hm.call = MaxCalls
    /\ \E octaves \in (0 - 1)..MaxOctaves, table \in NoiseTables :
         fbmCall' = [asked |-> TRUE, octaves |-> octaves, table |-> table,
                     maxAmplitude |-> MaxAmplitude(octaves),
                     field |-> generateFBM(table, MapSide, MapSide, octaves)]
    /\ UNCHANGED <<hm, hmPrev, voronoiVars, sceneVars, cacheVars, instancerVars>>

(***************************************************************************)
(* SpecHeightmap: calls of generateHeightmap, one after the other, and of  *)
(* generateFBM.                                                            *)
(***************************************************************************)
InitHeightmap == IdleVoronoi /\ IdleScene /\ IdleTerrain /\ IdlePlacement /\ IdleInstancer

(***************************************************************************)
(* SpecPlacement: calls of the placement methods of the three tables, and  *)
(* of clearPlacementCache.                                                 *)
(***************************************************************************)
InitPlacement == IdleVoronoi /\ IdleScene /\ IdleTerrain /\ IdlePlacement /\ IdleInstancer

NextPlacement == CallPlacement \/ ClearPlacementCache

SpecPlacement == InitPlacement /\ [][NextPlacement]_vars

(***************************************************************************)
(* SpecInstancer: one PlantInstancer and the calls made on it.             *)
(***************************************************************************)
InitInstancer == IdleVoronoi /\ IdleScene /\ IdleTerrain /\ IdlePlacement /\ IdleInstancer

NextInstancer == NewInstancer \/ InstancerForGroup \/ AddInstance \/ RemoveInstance

SpecInstancer == InitInstancer /\ [][NextInstancer]_vars

NextHeightmap ==
    GenerateHeightmap \/ ScanCell \/ Normalize \/ ReturnUnnormalized \/ GenerateFBM

SpecHeightmap == InitHeightmap /\ [][NextHeightmap]_vars

(***************************************************************************)
(* Claims about the partition, checked under SpecVoronoi.                  *)
(***************************************************************************)
Cells == gen.system.cells

IsNearest(cell, p) ==
    \A k \in 1..Len(Cells) : Dist2(p, cell.center) <= Dist2(p, Cells[k].center)

\* C4: on a system with at least one seed, getPlantDataForPosition returns
\* the plant type and placement method of a seed that is at least as near to
\* the query point as every other seed (the 3x3 window agrees with a
\* brute-force scan).
C4_ReturnsNearestSeed ==
    (query.asked /\ gen.pc = "built" /\ Len(Cells) > 0) =>
        \E k \in 1..Len(Cells) :
            /\ IsNearest(Cells[k], query.point)
            /\ query.data = [plantType |-> Cells[k].plantType,
                             placementMethod |-> Cells[k].placementMethod]

\* C5: with at least one seed every lookup returns a seed of the system; when
\* the 3x3 window holds no candidate the linear scan answers, with a nearest
\* seed; the lookup returns null only when the system has no seed.
C5_Covering ==
    (query.asked /\ gen.pc = "built") =>
        /\ (Len(Cells) > 0) =>
               (\E k \in 1..Len(Cells) : query.cell = Cells[k])
        /\ (Len(Cells) = 0) <=> (query.cell = NoCell)
        /\ query.fallback => IsNearest(query.cell, query.point)

\* C5 witness: a lookup whose window was empty was answered by the scan.
C5_Witness ==
    query.asked /\ query.fallback /\ query.cell # NoCell /\ Len(Cells) > 1

\* C6: every accepted seed either keeps minDistance to every seed accepted
\* before it, or was accepted on the 100th draw; no sampling loop draws more
\* than 100 candidates (between passes fewer than 100 have been drawn).
C6_SpacingOrCap ==
    /\ gen.attempts < MaxAttempts
    /\ \A k \in 1..Len(seedLog) :
          \/ seedLog[k].attempts = "cap"
          \/ \A j \in 1..(k - 1) :
                ~TooClose(gen.centers[k], gen.centers[j], gen.width, gen.height, gen.numCells)

\* C6 witness: a seed accepted at the cap although it is too close, beside a
\* seed accepted below the cap.
C6_Witness ==
    \E k \in 1..Len(seedLog) :
        /\ seedLog[k].attempts = "cap" /\ seedLog[k].exhausted
        /\ seedLog[1].attempts = "below"

\* C7 as claimed: when all 100 draws for a seed were too close, the accepted
\* seed is the best of them (the one farthest from the accepted seeds).
C7_AcceptsBestCandidate ==
    \A k \in 1..Len(seedLog) : seedLog[k].exhausted => seedLog[k].best

\* C7 as amended: when all 100 draws for a seed were too close, the accepted
\* seed is the candidate of the 100th draw, whichever of the draws was best.
C7_AcceptsLastCandidate ==
    \A k \in 1..Len(seedLog) :
        seedLog[k].exhausted =>
            (seedLog[k].attempts = "cap" /\ gen.centers[k] = seedLog[k].lastDraw)

\* C7 witness: an exhausted seed whose accepted center is not the best draw.
C7_Witness ==
    \E k \in 1..Len(seedLog) : seedLog[k].exhausted /\ ~seedLog[k].best

\* C8: the height passed to the callbacks is the sample of the grid cell
\* nearest to the seed center, and that cell is inside the grid:
\* 0 <= iX < width, 0 <= iZ < height.
C8_SeedSampleInsideGrid ==
    \A k \in 1..Len(seedLog) :
        /\ 0 <= seedLog[k].iX /\ seedLog[k].iX < gen.width
        /\ 0 <= seedLog[k].iZ /\ seedLog[k].iZ < gen.height
        /\ seedLog[k].y = HeightValue(gen.heightmap, seedLog[k].iX, seedLog[k].iZ)

(***************************************************************************)
(* Claims about scene creation, checked under Spec.                        *)
(***************************************************************************)
Runs == 1..MaxEffects

\* The cells the loops of a run walk.
TotalCells(p, v) == (p.gridWidth - LoopStart(v)) * (p.gridHeight - LoopStart(v))

Finished(r) == runs[r].pc = "returned" /\ runs[r].outcome # "aborted"

\* C1: a run whose flag was set while it was suspended sees the flag at its
\* next resumption and stops walking the grid: it visits at most one further
\* batch of 1000 cells after the flag was set, and hands off no result.
C1_StopsWithinOneBatchOfCancel ==
    \A r \in Runs :
        /\ runs[r].afterCancel <= batchSize
        /\ runs[r].cancelledAtEnd => runs[r].outcome # "published"

\* C2: the published scene is empty, or it is the terrain and the instancers
\* of one run that walked every cell and was not cancelled when it handed
\* them off; each instancer holds its whole list of positions.
C2_PublishIsAtomic ==
    /\ terrainMesh = 0 => plantInstancers = <<>>
    /\ terrainMesh # 0 =>
          /\ runs[terrainMesh].outcome = "published"
          /\ plantInstancers = runs[terrainMesh].instancers
    /\ \A r \in Runs :
          runs[r].outcome = "published" =>
              /\ ~runs[r].cancelledAtEnd
              /\ runs[r].visited = TotalCells(runs[r].props, variant)
              /\ Len(runs[r].instancers) = Len(runs[r].plantGroups)
              /\ \A k \in 1..Len(runs[r].instancers) :
                    /\ runs[r].instancers[k].positions = runs[r].plantGroups[k].positions
                    /\ runs[r].instancers[k].count = Len(runs[r].plantGroups[k].positions)

\* C2 witness: a scene with plants is published by one run while another run,
\* cancelled during its loop, has ended without publishing.
C2_Witness ==
    /\ terrainMesh # 0
    /\ Len(plantInstancers) > 0
    /\ plantInstancers[1].count > 0
    /\ \E r \in Runs : runs[r].outcome = "discarded" /\ runs[r].visited > 0

\* C3: whatever the grid and the partition, also one without seeds, the loop
\* visits at most 1000 cells between two yields, and before the first one.
C3_YieldsEveryBatch ==
    \A r \in Runs : runs[r].segment <= batchSize

\* Every seed of the partition has the always-empty rule.
AllRulesEmpty(p) ==
    \A k \in 1..Len(p.voronoiSystem.cells) :
        p.voronoiSystem.cells[k].placementMethod = "placeEmpty"

\* C9: when every seed has the always-empty rule, the pass ends with a
\* grouped map without keys, and no instancer is created.
C9_EmptyRulesGiveEmptyMap ==
    \A r \in Runs :
        (Finished(r) /\ AllRulesEmpty(runs[r].props)) =>
            (runs[r].plantGroups = <<>> /\ runs[r].instancers = <<>>)

\* C10: with numCells = 0 every cell of the grid is looked up, answered null
\* and skipped, and the run ends normally with a grouped map without keys
\* and without instancers.
C10_NoSeedsGiveEmptyMap ==
    \A r \in Runs :
        (runs[r].pc # "none" /\ runs[r].props.numVoronoiCells = 0) =>
            /\ runs[r].props.voronoiSystem.cells = <<>>
            /\ runs[r].pc \in {"awaitTerrain", "returned"}
            /\ Finished(r) =>
                  /\ runs[r].visited = TotalCells(runs[r].props, variant)
                  /\ runs[r].processedCount = 0
                  /\ runs[r].plantGroups = <<>>
                  /\ runs[r].instancers = <<>>

\* C10 witness: a run over the large grid without seeds has published its
\* empty scene.
C10_Witness ==
    \E r \in Runs :
        /\ runs[r].props.numVoronoiCells = 0
        /\ runs[r].props.gridWidth = LargeGrid
        /\ runs[r].outcome = "published"
        /\ terrainMesh = r
        /\ plantInstancers = <<>>

\* C11: with one seed whose rule is always-full, the pass of the current
\* component emits exactly one position per visited cell, the visited cells
\* being the grid without its first row and first column, in scan order; all
\* of them are in the list of the seed's plant type, the only key of the map.
C11_OnePositionPerVisitedCell ==
    \A r \in Runs :
        LET p == runs[r].props
            seeds == p.voronoiSystem.cells
            w == p.gridWidth - 1
        IN (/\ Finished(r)
            /\ variant = "current"
            /\ Len(seeds) = 1
            /\ seeds[1].placementMethod = "placeFull") =>
               /\ Len(runs[r].plantGroups) = 1
               /\ runs[r].plantGroups[1].key = <<seeds[1].plantType>>
               /\ runs[r].visited = w * (p.gridHeight - 1)
               /\ Len(runs[r].plantGroups[1].positions) = w * (p.gridHeight - 1)
               /\ \A k \in 1..Len(runs[r].plantGroups[1].positions) :
                     runs[r].plantGroups[1].positions[k] =
                         WorldPosition(p, seeds[1].plantType,
                                       1 + ((k - 1) % w), 1 + ((k - 1) \div w))

\* C11 witness: such a pass has ended and its 25 plants are published.
C11_Witness ==
    \E r \in Runs :
        /\ variant = "current"
        /\ terrainMesh = r
        /\ Len(runs[r].props.voronoiSystem.cells) = 1
        /\ runs[r].props.voronoiSystem.cells[1].placementMethod = "placeFull"
        /\ Len(plantInstancers) = 1
        /\ plantInstancers[1].count = (SmallGrid - 1) * (SmallGrid - 1)

(***************************************************************************)
(* Claims about the terrain generator, checked under SpecHeightmap.        *)
(***************************************************************************)
\* Two calls made with the same arguments.
SameCall == hm.pc = "returned" /\ hmPrev.pc = "returned" /\ hm.args = hmPrev.args

\* C12: generateHeightmap is deterministic: two calls with the same
\* arguments (width, height, maxHillRadius, roughness, numHills, seed) return
\* the same heightmap and the same highest point.
C12_SameArgsSameResult ==
    SameCall => /\ hm.out = hmPrev.out
                /\ hm.highestPoint = hmPrev.highestPoint

\* A call of the normalizing generator has returned after dividing.
NormalizedCall == hm.pc = "returned" /\ hm.normalized

\* The samples of the returned heightmap.
Samples == {hm.out[k] : k \in 1..Len(hm.out)}

\* C13: after the normalization step has been applied to a heightmap of
\* numbers, the largest sample of the returned heightmap is exactly 1, the
\* returned highest point has height exactly 1, and every sample is at most 1.
C13_NormalizedMaxIsOne ==
    (NormalizedCall /\ \A a \in Samples : IsNumber(a)) =>
        /\ hm.highestPoint.height = Unit
        /\ \A a \in Samples : a <= Unit
        /\ Unit \in Samples

\* A call of the normalizing generator has returned, and the highest blended
\* height it found is a number that is not positive.
NothingAboveZero ==
    /\ hm.pc = "returned"
    /\ hm.version = "normalizing"
    /\ IsNumber(hm.highestPoint.height)
    /\ \A k \in 1..Len(hm.blend) : ~Higher(hm.blend[k], 0)

\* C14: when the highest raw sample is <= 0 the normalization is skipped: no
\* sample is divided, the heightmap is returned as it was blended (so the
\* step brings in no NaN and no infinity), and the highest point keeps the
\* raw height.
C14_SkipsNormalization ==
    NothingAboveZero =>
        /\ ~hm.normalized
        /\ hm.out = [k \in 1..Len(hm.blend) |-> Fround(hm.blend[k])]
        /\ hm.highestPoint.height = hm.blend[1 + hm.highestPoint.y * hm.args.width
                                                + hm.highestPoint.x]
        /\ \A k \in 1..Len(hm.blend) : IsNumber(hm.blend[k]) => IsNumber(hm.out[k])

\* C14 witness: a call without hills and with roughness 0 has returned a map
\* of zeros.
C14_Witness ==
    /\ NothingAboveZero
    /\ hm.args.numHills = 0
    /\ hm.highestPoint = [set |-> TRUE, x |-> 0, y |-> 0, height |-> 0]
    /\ hm.out = [k \in 1..(MapSide * MapSide) |-> 0]

\* The scan loop of a call has ended, over a blend of numbers.
Scanned ==
    /\ hm.pc \in {"scanned", "returned"}
    /\ \A k \in 1..Len(hm.blend) : IsNumber(hm.blend[k])

C16_NoHillWithoutRadius ==
    (hm.pc # "idle" /\ hm.args.maxHillRadius <= 0) =>
        \A i \in 1..Len(hm.hills) : hm.hills[i].radius32 > 0

\* C17: generateFBM called with octaves <= 0 returns a field whose every
\* sample is 0.5, and the divisor made from maxAmplitude is not 0 when it
\* divides.
C17_NoOctavesGiveHalf ==
    (fbmCall.asked /\ fbmCall.octaves <= 0) =>
        \A k \in 1..Len(fbmCall.field) : fbmCall.field[k] = Unit \div 2

(***************************************************************************)
(* Claims about the placement methods, checked under SpecPlacement.        *)
(***************************************************************************)
\* C18: in the placementMethods tables in use (the current one and the older
\* one of arrow functions) rows accepts (x, y) exactly when y % 2 = 0,
\* columns exactly when x % 2 = 0, checkerboard exactly when
\* (x + y) % 2 = 0, always-empty accepts no cell and always-full every cell.
C18_PeriodicPredicates ==
    LET c == lastPlacement
    IN (c.called /\ c.table \in {"current", "older"}) =>
          /\ (c.name = "placeRows") => (c.result <=> (c.y % 2 = 0))
          /\ (c.name = "placeColumns") => (c.result <=> (c.x % 2 = 0))
          /\ (c.name = "placeCheckerboard") => (c.result <=> ((c.x + c.y) % 2 = 0))
          /\ (c.name = "placeEmpty") => ~c.result
          /\ (c.name = "placeFull") => c.result

\* C19: a cached placement method called at (x, y) returns the value of its
\* own predicate at (x, y), and never a value that another method computed
\* and cached there.
C19_CacheKeptPerMethod ==
    LET c == lastPlacement
    IN (c.called /\ c.table = "cached") =>
          /\ c.from = c.name
          /\ c.result <=> CachedPredicate(c.name, c.x, c.y)

C21_SeedsAssignedOnce ==
    [][ /\ Len(gen'.cells) \in {Len(gen.cells), Len(gen.cells) + 1}
        /\ Len(seedLog') = Len(gen'.cells)
        /\ \A k \in 1..Len(gen.cells) : gen'.cells[k] = gen.cells[k]
        /\ (gen.pc = "built") => (gen'.system = gen.system) ]_vars

\* C21 witness: a partition of two seeds has been built and looked up.
C21_Witness ==
    /\ gen.pc = "built"
    /\ Len(gen.cells) = 2
    /\ gen.system.cells = gen.cells
    /\ query.asked
    /\ \E k \in 1..Len(gen.cells) : query.cell = gen.cells[k]

\* C22: every seed has its center inside the plane, 0 <= center.x < width and
\* 0 <= center.y < height (coordinates in half units), the seeds accepted at
\* the attempt cap included.
C22_CentersInsidePlane ==
    \A k \in 1..Len(gen.cells) :
        /\ 0 <= gen.cells[k].center.x /\ gen.cells[k].center.x < 2 * gen.width
        /\ 0 <= gen.cells[k].center.y /\ gen.cells[k].center.y < 2 * gen.height

\* C22 witness: a seed was accepted on the pass that reached the cap while
\* still in conflict, and it lies half a unit from the far edges.
C22_Witness ==
    \E k \in 1..Len(gen.cells) :
        /\ seedLog[k].attempts = "cap"
        /\ seedLog[k].exhausted
        /\ gen.cells[k].center = [x |-> 2 * gen.width - 1, y |-> 2 * gen.height - 1]

(***************************************************************************)
(* Further claims about the terrain generator, checked under SpecHeightmap.*)
(***************************************************************************)
\* C23: generateHeightmap accumulates the hills as a plain sum, not an
\* average: the hill term of a cell before blending is the sum over the
\* numHills hills of the hill's height at the cell, not divided by numHills.
C23_HillsAreSummed ==
    (hm.pc # "idle") =>
        hm.hillSum = HillSum("plain", hm.args, hm.hills, hm.args.numHills)

(***************************************************************************)
(* Further claims about the scene, checked under Spec.                     *)
(***************************************************************************)
\* The cells the loops of the current component visit.
VisitedCells(p) == (1..(p.gridWidth - 1)) \X (1..(p.gridHeight - 1))

\* The seed data the partition returns for cell c.
DataAt(p, c) == getPlantDataForPosition([x |-> 2 * c[1], y |-> 2 * c[2]], p.voronoiSystem)

\* The cells whose seed has plant type `type` and whose rule accepts them.
AcceptedCells(p, type) ==
    { c \in VisitedCells(p) :
        /\ DataAt(p, c) # NoPlantData
        /\ DataAt(p, c).plantType = type
        /\ placementMethod(DataAt(p, c).placementMethod, c[1], c[2]) }

C25_UncancelledRunPublishes ==
    /\ \A r \in Runs : Pending(r) ~> (runs[r].isCancelled \/ runs[r].pc = "returned")
    /\ [](\A r \in Runs :
            (variant = "current" /\ runs[r].pc = "returned" /\ ~runs[r].cancelledAtEnd
               /\ runs[r].outcome # "aborted") =>
                /\ runs[r].outcome = "published"
                /\ runs[r].visited = TotalCells(runs[r].props, variant))
    /\ [][\A r \in Runs :
            runs[r].pc = "returned" =>
                /\ runs'[r].pc = "returned"
                /\ runs'[r].outcome = runs[r].outcome
                /\ runs'[r].visited = runs[r].visited]_vars

\* C25 witness: a run that yielded twice on the large grid and was never
\* cancelled has published.
C25_Witness ==
    \E r \in Runs :
        /\ terrainMesh = r
        /\ runs[r].outcome = "published"
        /\ ~runs[r].isCancelled
        /\ runs[r].props.gridWidth = LargeGrid
        /\ runs[r].visited > 2 * batchSize

\* The older effect has returned early: it cleared the displayed terrain and
\* started no createScene call (so it left no cleanup either).
ReturnedEarly ==
    /\ variant = "older"
    /\ mounted
    /\ nEffects > 0
    /\ cleanupRun = 0
    /\ terrainMesh = 0

\* A createScene call is under way that will publish its scene.
SceneUnderWay == \E r \in 1..MaxEffects : Pending(r) /\ ~runs[r].isCancelled

\* C26: in the older variant, once a dependency change has cleared a displayed
\* terrain, the effect runs again: a createScene call is under way that will
\* publish a scene for the new parameters.
C26_ClearedSceneIsRebuilt == ReturnedEarly => SceneUnderWay

\* The createScene calls started so far, and the most recent of them.
Started == { r \in 1..MaxEffects : runs[r].pc # "none" }

Latest == IF Started = {} THEN 0
          ELSE CHOOSE r \in Started : \A q \in Started : q <= r

\* C27: the latest request wins: no createScene call other than the most
\* recently started one is un-cancelled, and a displayed terrain and the
\* displayed instancers are the output of the most recently started call.
C27_LatestRequestWins ==
    /\ \A r \in Started : ~runs[r].isCancelled => r = Latest
    /\ terrainMesh # 0 =>
          /\ terrainMesh = Latest
          /\ runs[terrainMesh].outcome = "published"
          /\ plantInstancers = runs[terrainMesh].instancers

\* C27 witness: a superseded call went on to its end after the next one had
\* started, and the scene displayed is the later call's.
C27_Witness ==
    /\ variant = "current"
    /\ runs[1].pc = "returned"
    /\ runs[1].outcome = "discarded"
    /\ runs[1].afterCancel > 0
    /\ terrainMesh = 2
    /\ plantInstancers = runs[2].instancers

\* The instancers that call r constructed are displayed or have been disposed.
Accounted(r) ==
    InstancerIds(runs[r].instancers) \subseteq
        (InstancerIds(plantInstancers) \cup disposed)

\* Nothing is left to happen: the component is unmounted and no createScene
\* call is suspended.
AllOver == ~mounted /\ \A r \in 1..MaxEffects : ~Pending(r)

\* C28: every instancer a createScene call constructed is published to the
\* scene state or disposed, also when the call was cancelled during the
\* placement loop: when all is over, none is left that was neither.
C28_InstancersPublishedOrDisposed == AllOver => \A r \in Runs : Accounted(r)

\* The bucket key of a point (in half units) in system sys.
BucketOf(point, sys) ==
    <<FloorG(point.x, sys.gridSize), FloorG(point.y, sys.gridSize)>>

\* C29: in the grid of a finished partition every seed is listed in the
\* bucket that contains its own centre, no bucket lists a seed twice, and a
\* lookup at a seed's own centre finds candidates in its window, so it does
\* not fall back to the scan of all seeds.
C29_SeedsInOwnBucket ==
    (gen.pc = "built") =>
        LET sys == gen.system
        IN /\ \A k \in 1..Len(sys.cells) :
                 LET key == BucketOf(sys.cells[k].center, sys)
                 IN /\ key \in DOMAIN sys.grid
                    /\ \E j \in 1..Len(sys.grid[key]) : sys.grid[key][j] = sys.cells[k]
                    /\ Len(WindowCandidates(sys.cells[k].center, sys)) > 0
           /\ \A key \in DOMAIN sys.grid :
                 \A i, j \in 1..Len(sys.grid[key]) :
                    (i # j) => (sys.grid[key][i].id # sys.grid[key][j].id)

\* C29 witness: a finished partition of two seeds that share some buckets
\* but not all, the second seed lying outside the first bucket.
C29_Witness ==
    /\ gen.pc = "built"
    /\ Len(gen.system.cells) = 2
    /\ \E key \in DOMAIN gen.system.grid : Len(gen.system.grid[key]) = 2
    /\ \E key \in DOMAIN gen.system.grid : Len(gen.system.grid[key]) = 1
    /\ BucketOf(gen.system.cells[2].center, gen.system) # <<0, 0>>
    /\ BucketOf(gen.system.cells[2].center, gen.system) \in DOMAIN gen.system.grid

\* C30: a PlantInstancer keeps 0 <= count <= maxCount; addInstance on a full
\* instancer returns -1 and changes nothing, otherwise it returns the previous
\* count and adds one to it; removeInstance with an index >= count changes
\* nothing; and an instancer made for a list of positions with maxInstances =
\* positions.length holds all of them, getTotalCount() = positions.length.
C30_CountWithinCapacity ==
    /\ [](0 <= instancer.obj.count /\ instancer.obj.count <= instancer.obj.maxCount)
    /\ [][(instancer'.op = "addInstance") =>
            IF instancer.obj.count >= instancer.obj.maxCount
            THEN instancer'.result = 0 - 1 /\ instancer'.obj = instancer.obj
            ELSE /\ instancer'.result = instancer.obj.count
                 /\ instancer'.obj.count = instancer.obj.count + 1]_vars
    /\ [][(instancer'.op = "removeInstance"
              /\ instancer'.index >= instancer.obj.count) =>
                instancer'.obj = instancer.obj]_vars
    /\ []((instancer.op = "forEach") =>
             /\ getTotalCount(instancer.obj) = Len(instancer.given)
             /\ instancer.obj.positions = instancer.given)

\* C30 witness: addInstance on a full instancer of capacity two, made for two
\* positions, has just returned -1.
C30_Witness ==
    /\ instancer.op = "addInstance"
    /\ instancer.result = 0 - 1
    /\ Len(instancer.given) = 2
    /\ instancer.obj.count = 2
    /\ instancer.obj.maxCount = 2

=============================================================================
